---- MODULE Spec2Model ----
(***************************************************************************)
(* Model of the interruption filter of livekit-agents                      *)
(* (livekit/agents/voice/interruption_filter.py): the tokenizer, the       *)
(* InterruptionFilter decision engine and InterruptionFilterConfig.        *)
(*                                                                         *)
(* A Python str is a sequence of one-character strings.  A float is an     *)
(* integer number of tenths (confidence 1.0 is 10, buffer_time 2.0 is 20). *)
(***************************************************************************)
EXTENDS Integers, Sequences, FiniteSets, TLC

----------------------------------------------------------------------------
(* Characters and the str methods the filter uses                          *)

\* string.punctuation (the backquote, which a TLA+ string cannot hold, is left out)
Punctuation ==
    {"!", "\"", "#", "$", "%", "&", "'", "(", ")", "*", "+", ",", "-", ".",
     "/", ":", ";", "<", "=", ">", "?", "@", "[", "\\", "]", "^", "_",
     "{", "|", "}", "~"}

\* the characters str.split() and str.strip() treat as whitespace
Whitespace == {" ", "\t", "\n", "\r", "\f"}

UpperCase ==
    <<"A", "B", "C", "D", "E", "F", "G", "H", "I", "J", "K", "L", "M",
      "N", "O", "P", "Q", "R", "S", "T", "U", "V", "W", "X", "Y", "Z">>

LowerCase ==
    <<"a", "b", "c", "d", "e", "f", "g", "h", "i", "j", "k", "l", "m",
      "n", "o", "p", "q", "r", "s", "t", "u", "v", "w", "x", "y", "z">>

LowerChar(c) ==
    IF \E i \in DOMAIN UpperCase : UpperCase[i] = c
    THEN LowerCase[CHOOSE i \in DOMAIN UpperCase : UpperCase[i] = c]
    ELSE c

\* str.lower()
lower(s) == [i \in DOMAIN s |-> LowerChar(s[i])]

\* text.translate(translator): every punctuation character deleted
translate(s) == SelectSeq(s, LAMBDA c : c \notin Punctuation)

\* str.split(): the maximal runs of non-whitespace characters, in order
RECURSIVE SplitFrom(_, _, _)
SplitFrom(s, cur, acc) ==
    IF s = << >>
    THEN IF cur = << >> THEN acc ELSE Append(acc, cur)
    ELSE IF Head(s) \in Whitespace
         THEN SplitFrom(Tail(s), << >>,
                        IF cur = << >> THEN acc ELSE Append(acc, cur))
         ELSE SplitFrom(Tail(s), Append(cur, Head(s)), acc)

split(s) == SplitFrom(s, << >>, << >>)

\* str.strip(): leading and trailing whitespace removed
RECURSIVE lstrip(_)
lstrip(s) ==
    IF s # << >> /\ Head(s) \in Whitespace THEN lstrip(Tail(s)) ELSE s

RECURSIVE rstrip(_)
rstrip(s) ==
    IF s # << >> /\ s[Len(s)] \in Whitespace
    THEN rstrip(SubSeq(s, 1, Len(s) - 1))
    ELSE s

strip(s) == rstrip(lstrip(s))

\* `sub in s` on str
Contains(s, sub) ==
    \E i \in 0 .. (Len(s) - Len(sub)) : SubSeq(s, i + 1, i + Len(sub)) = sub

\* set(list)
ToSet(l) == {l[i] : i \in DOMAIN l}

----------------------------------------------------------------------------
(* Module constants                                                        *)

DEFAULT_IGNORE_LIST ==
    << <<"y", "e", "a", "h">>,
       <<"y", "e", "p">>,
       <<"y", "e", "s">>,
       <<"y", "u", "p">>,
       <<"o", "k">>,
       <<"o", "k", "a", "y">>,
       <<"h", "m", "m">>,
       <<"m", "h", "m">>,
       <<"m", "m">>,
       <<"m", "m", "m">>,
       <<"u", "h", "-", "h", "u", "h">>,
       <<"u", "h", " ", "h", "u", "h">>,
       <<"a", "h">>,
       <<"a", "h", "a">>,
       <<"o", "h">>,
       <<"o", "o", "h">>,
       <<"u", "m">>,
       <<"u", "h">>,
       <<"e", "r">>,
       <<"e", "r", "m">>,
       <<"r", "i", "g", "h", "t">>,
       <<"s", "u", "r", "e">>,
       <<"a", "l", "r", "i", "g", "h", "t">>,
       <<"g", "o", "t", " ", "i", "t">>,
       <<"g", "o", " ", "o", "n">>,
       <<"c", "o", "n", "t", "i", "n", "u", "e">>,
       <<"i", " ", "s", "e", "e">> >>

\* FilterAction
FilterAction == {"allow", "filter", "pending"}
ALLOW == "allow"
FILTER == "filter"
PENDING == "pending"

\* FilterDecision(action, reason, confidence=1.0, metadata={}): metadata is a
\* function from its keys to their values
EmptyMetadata == [k \in {} |-> FALSE]

FilterDecision(action, reason, confidence, metadata) ==
    [action |-> action, reason |-> reason, confidence |-> confidence,
     metadata |-> metadata]

----------------------------------------------------------------------------
(* Custom filter functions (the caller's Callable[[str, str], bool])       *)

NoneFn == "None"

\* test_custom_filter_function's policy, a policy that reads only the agent
\* state label, and a policy that always raises
CustomFilters == {"contains_custom", "state_is_speaking", "raises"}

CUSTOM_WORD == <<"c", "u", "s", "t", "o", "m">>

\* the outcome of custom_filter_fn(transcription, agent_state)
CustomFilterCall(fn, transcription, agent_state) ==
    CASE fn = "contains_custom" ->
            [raised |-> FALSE, value |-> Contains(transcription, CUSTOM_WORD)]
      [] fn = "state_is_speaking" ->
            [raised |-> FALSE, value |-> (agent_state = "speaking")]
      [] fn = "raises" ->
            [raised |-> TRUE, value |-> FALSE]

----------------------------------------------------------------------------
(* InterruptionFilter                                                      *)

\* The ignore_list argument: None, or a list of words
NoneList == [is_none |-> TRUE, list |-> << >>]
ListOf(l) == [is_none |-> FALSE, list |-> l]

InterruptionFilterInit_always_lower(ignore_list, custom_filter_fn, enabled, case_sensitive) ==
    LET given == IF ignore_list.is_none THEN DEFAULT_IGNORE_LIST ELSE ignore_list.list
    IN  [_enabled |-> enabled,
         _case_sensitive |-> case_sensitive,
         _custom_filter_fn |-> custom_filter_fn,
         _ignore_set |-> ToSet([i \in DOMAIN given |-> lower(given[i])])]

\* __init__
InterruptionFilterInit(ignore_list, custom_filter_fn, enabled, case_sensitive) ==
    LET given == IF ignore_list.is_none THEN DEFAULT_IGNORE_LIST ELSE ignore_list.list
        normalized == IF ~case_sensitive
                      THEN [i \in DOMAIN given |-> lower(given[i])]
                      ELSE given
    IN  [_enabled |-> enabled,
         _case_sensitive |-> case_sensitive,
         _custom_filter_fn |-> custom_filter_fn,
         _ignore_set |-> ToSet(normalized)]

_normalize_text(self, text) ==
    IF self._case_sensitive THEN text ELSE lower(text)

_tokenize(text) ==
    LET cleaned == translate(text)
    IN  SelectSeq(split(cleaned), LAMBDA word : word # << >>)

is_ignore_list_only_no_empty_check(self, transcription) ==
    LET words == _tokenize(_normalize_text(self, transcription))
    IN  \A i \in DOMAIN words : words[i] \in self._ignore_set

is_ignore_list_only(self, transcription) ==
    IF transcription = << >> \/ strip(transcription) = << >>
    THEN FALSE
    ELSE LET normalized == _normalize_text(self, transcription)
             words == _tokenize(normalized)
         IN  IF words = << >>
             THEN FALSE
             ELSE \A i \in DOMAIN words : words[i] \in self._ignore_set

has_command_words_negates(self, transcription) ==
    ~is_ignore_list_only(self, transcription)

has_command_words(self, transcription) ==
    IF transcription = << >> \/ strip(transcription) = << >>
    THEN FALSE
    ELSE LET normalized == _normalize_text(self, transcription)
             words == _tokenize(normalized)
         IN  IF words = << >>
             THEN FALSE
             ELSE \E i \in DOMAIN words : words[i] \notin self._ignore_set

\* A call's outcome: the decision returned (when no exception escaped), the
\* number of times the custom filter function was invoked, and whether an
\* exception propagated to the caller.
Returned(decision, calls) ==
    [decision |-> decision, filter_calls |-> calls, raised |-> FALSE]

NoDecision == FilterDecision("none", "", 0, EmptyMetadata)

Propagated(calls) ==
    [decision |-> NoDecision, filter_calls |-> calls, raised |-> TRUE]

DisabledDecision == FilterDecision(ALLOW, "Filtering disabled", 10, EmptyMetadata)

CustomDecision(should_filter) ==
    FilterDecision(IF should_filter THEN FILTER ELSE ALLOW,
                   "Custom filter decision", 10,
                   [k \in {"custom_filter"} |-> TRUE])

NotSpeakingDecision ==
    FilterDecision(ALLOW, "Agent not speaking, processing as user input", 10,
                   [k \in {"agent_speaking"} |-> FALSE])

BackchannelDecision(transcription) ==
    FilterDecision(FILTER, "Backchanneling detected while agent speaking", 10,
                   [agent_speaking |-> TRUE, ignore_list_only |-> TRUE,
                    transcription |-> transcription])

CommandDecision(transcription) ==
    FilterDecision(ALLOW, "Command words detected, allowing interruption", 10,
                   [agent_speaking |-> TRUE, has_command_words |-> TRUE,
                    transcription |-> transcription])

DefaultDecision == FilterDecision(ALLOW, "Default allow", 5, EmptyMetadata)

\* mutants of default_logic
default_logic_ignores_speaking(self, transcription, agent_speaking) ==
    IF is_ignore_list_only(self, transcription)
    THEN BackchannelDecision(transcription)
    ELSE IF has_command_words(self, transcription)
         THEN CommandDecision(transcription)
         ELSE DefaultDecision

default_logic_filters_commands(self, transcription, agent_speaking) ==
    IF ~agent_speaking
    THEN NotSpeakingDecision
    ELSE IF has_command_words(self, transcription)
         THEN BackchannelDecision(transcription)
         ELSE IF is_ignore_list_only(self, transcription)
              THEN CommandDecision(transcription)
              ELSE DefaultDecision

default_logic_confident_default(self, transcription, agent_speaking) ==
    IF ~agent_speaking
    THEN NotSpeakingDecision
    ELSE IF is_ignore_list_only(self, transcription)
         THEN BackchannelDecision(transcription)
         ELSE IF has_command_words(self, transcription)
              THEN CommandDecision(transcription)
              ELSE FilterDecision(ALLOW, "Default allow", 10, EmptyMetadata)

default_logic_pending_default(self, transcription, agent_speaking) ==
    IF ~agent_speaking
    THEN NotSpeakingDecision
    ELSE IF is_ignore_list_only(self, transcription)
         THEN BackchannelDecision(transcription)
         ELSE IF has_command_words(self, transcription)
              THEN CommandDecision(transcription)
              ELSE FilterDecision(PENDING, "Default allow", 5, EmptyMetadata)

\* should_filter_interruption below the custom filter: the default logic
default_logic(self, transcription, agent_speaking) ==
    IF ~agent_speaking
    THEN NotSpeakingDecision
    ELSE IF is_ignore_list_only(self, transcription)
         THEN BackchannelDecision(transcription)
         ELSE IF has_command_words(self, transcription)
              THEN CommandDecision(transcription)
              ELSE DefaultDecision

\* mutants of should_filter_interruption
should_filter_interruption_custom_first(self, transcription, agent_state, agent_speaking) ==
    IF self._custom_filter_fn # NoneFn
    THEN LET r == CustomFilterCall(self._custom_filter_fn, transcription, agent_state)
         IN  IF ~r.raised
             THEN Returned(CustomDecision(r.value), 1)
             ELSE IF ~self._enabled
                  THEN Returned(DisabledDecision, 1)
                  ELSE Returned(default_logic(self, transcription, agent_speaking), 1)
    ELSE IF ~self._enabled
         THEN Returned(DisabledDecision, 0)
         ELSE Returned(default_logic(self, transcription, agent_speaking), 0)

should_filter_interruption_no_except(self, transcription, agent_state, agent_speaking) ==
    IF ~self._enabled
    THEN Returned(DisabledDecision, 0)
    ELSE IF self._custom_filter_fn # NoneFn
         THEN LET r == CustomFilterCall(self._custom_filter_fn, transcription, agent_state)
              IN  IF ~r.raised
                  THEN Returned(CustomDecision(r.value), 1)
                  ELSE Propagated(1)
         ELSE Returned(default_logic(self, transcription, agent_speaking), 0)

should_filter_interruption_custom_as_veto(self, transcription, agent_state, agent_speaking) ==
    IF ~self._enabled
    THEN Returned(DisabledDecision, 0)
    ELSE IF self._custom_filter_fn # NoneFn
         THEN LET r == CustomFilterCall(self._custom_filter_fn, transcription, agent_state)
              IN  IF ~r.raised /\ r.value
                  THEN Returned(CustomDecision(TRUE), 1)
                  ELSE Returned(default_logic(self, transcription, agent_speaking), 1)
         ELSE Returned(default_logic(self, transcription, agent_speaking), 0)

should_filter_interruption(self, transcription, agent_state, agent_speaking) ==
    IF ~self._enabled
    THEN Returned(DisabledDecision, 0)
    ELSE IF self._custom_filter_fn # NoneFn
         THEN LET r == CustomFilterCall(self._custom_filter_fn, transcription, agent_state)
              IN  IF ~r.raised
                  THEN Returned(CustomDecision(r.value), 1)
                  ELSE \* except Exception: logged, fall through
                       Returned(default_logic(self, transcription, agent_speaking), 1)
         ELSE Returned(default_logic(self, transcription, agent_speaking), 0)

----------------------------------------------------------------------------
(* The InterruptionFilter embedded in the example agent                    *)
(* (examples/voice_agents/intelligent_interruption_agent.py)               *)

Example_DEFAULT_IGNORE_LIST ==
    << <<"y", "e", "a", "h">>, <<"y", "e", "p">>, <<"y", "e", "s">>,
       <<"y", "u", "p">>, <<"o", "k">>, <<"o", "k", "a", "y">>,
       <<"h", "m", "m">>, <<"m", "h", "m">>, <<"m", "m">>, <<"m", "m", "m">>,
       <<"u", "h", "-", "h", "u", "h">>, <<"u", "h", " ", "h", "u", "h">>,
       <<"a", "h">>, <<"a", "h", "a">>, <<"o", "h">>, <<"o", "o", "h">>,
       <<"u", "m">>, <<"u", "h">>, <<"e", "r">>, <<"e", "r", "m">>,
       <<"r", "i", "g", "h", "t">>, <<"s", "u", "r", "e">>,
       <<"a", "l", "r", "i", "g", "h", "t">>, <<"g", "o", "t", " ", "i", "t">>,
       <<"g", "o", " ", "o", "n">>, <<"c", "o", "n", "t", "i", "n", "u", "e">>,
       <<"i", " ", "s", "e", "e">> >>

Example_InterruptionFilterInit(ignore_list, custom_filter_fn, enabled, case_sensitive) ==
    LET given == IF ignore_list.is_none
                 THEN Example_DEFAULT_IGNORE_LIST
                 ELSE ignore_list.list
        normalized == IF ~case_sensitive
                      THEN [i \in DOMAIN given |-> lower(given[i])]
                      ELSE given
    IN  [_enabled |-> enabled,
         _case_sensitive |-> case_sensitive,
         _custom_filter_fn |-> custom_filter_fn,
         _ignore_set |-> ToSet(normalized)]

Example_normalize_text(self, text) ==
    IF self._case_sensitive THEN text ELSE lower(text)

Example_tokenize(text) ==
    SelectSeq(split(translate(text)), LAMBDA word : word # << >>)

Example_is_ignore_list_only(self, transcription) ==
    IF transcription = << >> \/ strip(transcription) = << >>
    THEN FALSE
    ELSE LET words == Example_tokenize(Example_normalize_text(self, transcription))
         IN  IF words = << >>
             THEN FALSE
             ELSE \A i \in DOMAIN words : words[i] \in self._ignore_set

Example_has_command_words(self, transcription) ==
    IF transcription = << >> \/ strip(transcription) = << >>
    THEN FALSE
    ELSE LET words == Example_tokenize(Example_normalize_text(self, transcription))
         IN  IF words = << >>
             THEN FALSE
             ELSE \E i \in DOMAIN words : words[i] \notin self._ignore_set

\* the rules below the custom filter
Example_default_logic(self, transcription, agent_speaking) ==
    IF ~agent_speaking
    THEN FilterDecision(ALLOW, "Agent not speaking, processing as user input",
                        10, [k \in {"agent_speaking"} |-> FALSE])
    ELSE IF Example_is_ignore_list_only(self, transcription)
         THEN FilterDecision(FILTER,
                             "Backchanneling detected while agent speaking", 10,
                             [agent_speaking |-> TRUE, ignore_list_only |-> TRUE,
                              transcription |-> transcription])
         ELSE IF Example_has_command_words(self, transcription)
              THEN FilterDecision(ALLOW,
                                  "Command words detected, allowing interruption",
                                  10,
                                  [agent_speaking |-> TRUE,
                                   has_command_words |-> TRUE,
                                   transcription |-> transcription])
              ELSE FilterDecision(ALLOW, "Default allow", 5, EmptyMetadata)

Example_should_filter_interruption_reraises(self, transcription, agent_state, agent_speaking) ==
    IF ~self._enabled
    THEN Returned(FilterDecision(ALLOW, "Filtering disabled", 10, EmptyMetadata), 0)
    ELSE IF self._custom_filter_fn # NoneFn
         THEN LET r == CustomFilterCall(self._custom_filter_fn, transcription, agent_state)
              IN  IF ~r.raised
                  THEN Returned(FilterDecision(IF r.value THEN FILTER ELSE ALLOW,
                                               "Custom filter decision", 10,
                                               [k \in {"custom_filter"} |-> TRUE]), 1)
                  ELSE Propagated(1)
         ELSE Returned(Example_default_logic(self, transcription, agent_speaking), 0)

Example_should_filter_interruption(self, transcription, agent_state, agent_speaking) ==
    IF ~self._enabled
    THEN Returned(FilterDecision(ALLOW, "Filtering disabled", 10, EmptyMetadata), 0)
    ELSE IF self._custom_filter_fn # NoneFn
         THEN LET r == CustomFilterCall(self._custom_filter_fn, transcription, agent_state)
              IN  IF ~r.raised
                  THEN Returned(FilterDecision(IF r.value THEN FILTER ELSE ALLOW,
                                               "Custom filter decision", 10,
                                               [k \in {"custom_filter"} |-> TRUE]), 1)
                  ELSE \* except Exception: pass
                       Returned(Example_default_logic(self, transcription, agent_speaking), 1)
         ELSE Returned(Example_default_logic(self, transcription, agent_speaking), 0)

----------------------------------------------------------------------------
(* The filter's calls statement by statement, one frame per running call   *)

\* What a call returns to its caller.
NoReturn ==
    [decision |-> NoDecision, result |-> FALSE, filter_calls |-> 0,
     raised |-> FALSE]

DecisionReturn(decision, calls) ==
    [decision |-> decision, result |-> FALSE, filter_calls |-> calls,
     raised |-> FALSE]

BoolReturn(b) ==
    [decision |-> NoDecision, result |-> b, filter_calls |-> 0,
     raised |-> FALSE]

NoCall ==
    [op |-> "none", transcription |-> << >>, agent_state |-> "listening",
     agent_speaking |-> FALSE]

\* A thread's frame: its position, the arguments of its call, the local
\* variable words, the helper it is inside, and what its calls returned.
IdleFrame ==
    [pc |-> "idle", call |-> NoCall, helper |-> "none", words |-> << >>,
     filter_calls |-> 0, ret |-> NoReturn, prev |-> NoReturn,
     has_prev |-> FALSE, calls |-> 0]

\* Entering a call; a repeated call remembers what the previous one returned.
Enter(f, call, is_repeat) ==
    [f EXCEPT !.pc = IF call.op = "should_filter_interruption"
                     THEN "enabled" ELSE "normalize",
              !.call = call,
              !.helper = IF call.op = "should_filter_interruption"
                         THEN "none" ELSE call.op,
              !.words = << >>,
              !.filter_calls = 0,
              !.prev = IF is_repeat THEN f.ret ELSE NoReturn,
              !.has_prev = is_repeat,
              !.ret = NoReturn,
              !.calls = f.calls + 1]

Return(f, ret) ==
    [f EXCEPT !.pc = "done", !.ret = ret, !.helper = "none", !.words = << >>]

\* if not self._enabled
StepEnabled(engine, f) ==
    IF ~engine._enabled
    THEN Return(f, DecisionReturn(DisabledDecision, 0))
    ELSE [f EXCEPT !.pc = "custom"]

\* if self._custom_filter_fn is not None: try ... except Exception
StepCustom(engine, f) ==
    IF engine._custom_filter_fn # NoneFn
    THEN LET r == CustomFilterCall(engine._custom_filter_fn,
                                   f.call.transcription, f.call.agent_state)
         IN  IF ~r.raised
             THEN Return(f, DecisionReturn(CustomDecision(r.value), 1))
             ELSE [f EXCEPT !.pc = "speaking", !.filter_calls = 1]
    ELSE [f EXCEPT !.pc = "speaking"]

\* if not agent_speaking; otherwise the call of is_ignore_list_only
StepSpeaking(engine, f) ==
    IF ~f.call.agent_speaking
    THEN Return(f, DecisionReturn(NotSpeakingDecision, f.filter_calls))
    ELSE [f EXCEPT !.pc = "normalize", !.helper = "is_ignore_list_only"]

\* A helper returns b: to the caller of the method, or into
\* should_filter_interruption, which returns or goes on to has_command_words.
HelperReturn(f, b) ==
    IF f.call.op # "should_filter_interruption"
    THEN Return(f, BoolReturn(b))
    ELSE IF f.helper = "is_ignore_list_only"
         THEN IF b
              THEN Return(f, DecisionReturn(
                                 BackchannelDecision(f.call.transcription),
                                 f.filter_calls))
              ELSE [f EXCEPT !.pc = "normalize",
                             !.helper = "has_command_words",
                             !.words = << >>]
         ELSE Return(f, DecisionReturn(
                            IF b THEN CommandDecision(f.call.transcription)
                                 ELSE DefaultDecision,
                            f.filter_calls))

\* the blank check, _normalize_text (reads _case_sensitive) and _tokenize
StepNormalize(engine, f) ==
    IF f.call.transcription = << >> \/ strip(f.call.transcription) = << >>
    THEN HelperReturn(f, FALSE)
    ELSE [f EXCEPT !.words = _tokenize(_normalize_text(engine,
                                                       f.call.transcription)),
                   !.pc = "membership"]

\* if not words; all(...) or any(...) over self._ignore_set
StepMembership(engine, f) ==
    IF f.words = << >>
    THEN HelperReturn(f, FALSE)
    ELSE IF f.helper = "is_ignore_list_only"
         THEN HelperReturn(f, \A i \in DOMAIN f.words :
                                  f.words[i] \in engine._ignore_set)
         ELSE HelperReturn(f, \E i \in DOMAIN f.words :
                                  f.words[i] \notin engine._ignore_set)

EngineAfterStep_drops_failed_policy(engine, before, after) ==
    IF after.filter_calls > before.filter_calls /\ after.pc = "speaking"
    THEN [engine EXCEPT !._custom_filter_fn = NoneFn]
    ELSE engine

\* The engine as a statement of a call leaves it: no statement of the three
\* methods assigns to a field of self or mutates _ignore_set.
EngineAfterStep(engine, before, after) == engine

----------------------------------------------------------------------------
(* IntelligentInterruptionAgent and the session's event handlers           *)

\* IntelligentInterruptionAgent.__init__
IntelligentInterruptionAgentInit ==
    [_interruption_filter |->
         Example_InterruptionFilterInit(ListOf(Example_DEFAULT_IGNORE_LIST),
                                        NoneFn, TRUE, FALSE),
     _is_speaking |-> FALSE]

set_speaking(agent, speaking) == [agent EXCEPT !._is_speaking = speaking]

\* What a handler did with the filter: whether it called
\* should_filter_interruption, with which arguments, and what came back.
NoEngineCall ==
    [called |-> FALSE, transcription |-> << >>, agent_state |-> "",
     agent_speaking |-> FALSE, outcome |-> Returned(NoDecision, 0),
     allow |-> FALSE]

should_allow_interruption(agent, transcript) ==
    LET label == IF agent._is_speaking THEN "speaking" ELSE "listening"
        r == Example_should_filter_interruption(agent._interruption_filter,
                                                transcript, label,
                                                agent._is_speaking)
    IN  [called |-> TRUE, transcription |-> transcript, agent_state |-> label,
         agent_speaking |-> agent._is_speaking, outcome |-> r,
         allow |-> (r.decision.action # FILTER)]

on_agent_state_changed_sticky(agent, ev) ==
    set_speaking(agent, agent._is_speaking \/ ev.new_state = "speaking")

\* the agent_state_changed handler
on_agent_state_changed(agent, ev) ==
    set_speaking(agent, ev.new_state = "speaking")

on_user_input_ignores_final(agent, ev) ==
    IF strip(ev.transcript) # << >>
    THEN should_allow_interruption(agent, ev.transcript)
    ELSE NoEngineCall

\* the user_input_transcribed handler
on_user_input(agent, ev) ==
    IF ev.is_final /\ strip(ev.transcript) # << >>
    THEN should_allow_interruption(agent, ev.transcript)
    ELSE NoEngineCall

----------------------------------------------------------------------------
(* InterruptionFilterConfig                                                *)

\* the dataclass with its defaults (buffer_time 0.5 is 5 tenths)
DefaultConfig ==
    [enabled |-> TRUE, ignore_list |-> DEFAULT_IGNORE_LIST,
     case_sensitive |-> FALSE, buffer_time |-> 5,
     custom_filter |-> NoneFn, emit_events |-> TRUE]

\* buffer_time's upper limit, 2.0, in tenths
BUFFER_TIME_LIMIT == 20

validate_strict_upper(config) ==
    IF config.buffer_time < 0 \/ config.buffer_time >= BUFFER_TIME_LIMIT
    THEN [raised |-> TRUE, config |-> config]
    ELSE IF config.enabled /\ config.ignore_list = << >>
         THEN [raised |-> TRUE, config |-> config]
         ELSE [raised |-> FALSE, config |-> config]

validate_appends_normalized(config) ==
    IF config.buffer_time < 0 \/ config.buffer_time > BUFFER_TIME_LIMIT
    THEN [raised |-> TRUE, config |-> config]
    ELSE IF config.enabled /\ config.ignore_list = << >>
         THEN [raised |-> TRUE, config |-> config]
         ELSE IF ~config.case_sensitive
              THEN [raised |-> FALSE,
                    config |-> [config EXCEPT !.ignore_list =
                                  @ \o [i \in DOMAIN @ |-> lower(@[i])]]]
              ELSE [raised |-> FALSE, config |-> config]

\* validate(): raises ValueError, or returns having normalized the ignore list
validate(config) ==
    IF config.buffer_time < 0 \/ config.buffer_time > BUFFER_TIME_LIMIT
    THEN [raised |-> TRUE, config |-> config]
    ELSE IF config.enabled /\ config.ignore_list = << >>
         THEN [raised |-> TRUE, config |-> config]
         ELSE IF ~config.case_sensitive
              THEN [raised |-> FALSE,
                    config |-> [config EXCEPT !.ignore_list =
                                  [i \in DOMAIN @ |-> lower(@[i])]]]
              ELSE [raised |-> FALSE, config |-> config]

----------------------------------------------------------------------------
(* The inputs the model draws                                              *)

\* the longest transcript, in pieces (a word, a punctuation mark or a blank)
MaxPieces == 3

YEAH_WORD == <<"y", "e", "a", "h">>
OK_WORD == <<"o", "k">>

Pieces ==
    {YEAH_WORD, <<"O", "k">>, CUSTOM_WORD, <<"!">>, <<" ">>}

RECURSIVE Concat(_)
Concat(ps) == IF ps = << >> THEN << >> ELSE Head(ps) \o Concat(Tail(ps))

BuiltTexts ==
    {Concat(ps) : ps \in UNION {[1 .. k -> Pieces] : k \in 0 .. MaxPieces}}

\* the transcripts of the unit tests
TestTexts ==
    {<<"y", "e", "a", "h", ",", " ", "o", "k", "!">>,
     <<"y", "e", "a", "h", " ", "b", "u", "t", " ", "w", "a", "i", "t">>,
     <<" ", " ", " ">>,
     <<"o", "k", ".">>,
     <<"s", "t", "o", "p">>,
     <<"o", "k", " ", "h", "m", "m", " ", "y", "e", "a", "h">>,
     <<"c", "u", "s", "t", "o", "m", " ", "i", "n", "p", "u", "t">>,
     <<"n", "o", "r", "m", "a", "l", " ", "i", "n", "p", "u", "t">>}

Transcriptions == BuiltTexts \cup TestTexts \cup ToSet(DEFAULT_IGNORE_LIST)

\* the ignore lists of the unit tests
TestIgnoreLists ==
    {<< >>, <<YEAH_WORD, OK_WORD>>,
     <<<<"Y", "E", "A", "H">>, <<"O", "k">>, <<"H", "M", "M">>>>}

IgnoreListArgs == {NoneList} \cup {ListOf(l) : l \in TestIgnoreLists}

AgentStates == {"speaking", "listening"}

\* buffer_time values, in tenths of a second
BufferTimes == {-5, -1, 0, 5, 10, 20, 21, 30}

\* the most validate() calls made on one configuration object
MaxValidateCalls == 2

----------------------------------------------------------------------------
(* State                                                                   *)

VARIABLES
    self,             \* the InterruptionFilter instance
    transcription,    \* the arguments of the calls on it
    agent_state,
    agent_speaking,
    op,               \* the method called last ("none" before any call)
    decision,         \* the FilterDecision that call returned (NoDecision if none)
    result,           \* the bool that call returned (FALSE if none)
    filter_calls,     \* invocations of the custom filter function in that call
    raised,           \* whether that call let an exception escape
    config,           \* an InterruptionFilterConfig instance
    config_before,    \* its fields when validate() was last entered
    validate_result,  \* "none" | "ok" | "ValueError"
    validate_calls,   \* the number of validate() calls made on it
    ignore_list_arg,  \* the ignore_list argument the objects were constructed with
    agent,            \* the IntelligentInterruptionAgent of the example
    event,            \* the session event handled last
    engine_called,    \* whether its handler called should_filter_interruption
    should_allow,     \* what should_allow_interruption returned to it
    last_new_state,   \* new_state of the latest agent_state_changed ("none" if none)
    threads,          \* the frame of each thread calling the filter
    engine0           \* the filter as __init__ returned it

filter_vars ==
    <<self, transcription, agent_state, agent_speaking, op, decision, result,
      filter_calls, raised>>

config_vars == <<config, config_before, validate_result, validate_calls>>

agent_vars == <<agent, event, engine_called, should_allow, last_new_state>>

\* what neither the filter's calls nor validate() touch
thread_vars == <<threads, engine0>>

other_vars == <<ignore_list_arg, agent_vars, thread_vars>>

vars == <<filter_vars, config_vars, other_vars>>

NoEvent ==
    [kind |-> "none", new_state |-> "", is_final |-> FALSE, transcript |-> << >>]

InitAgent ==
    /\ agent = IntelligentInterruptionAgentInit
    /\ event = NoEvent
    /\ engine_called = FALSE
    /\ should_allow = FALSE
    /\ last_new_state = "none"

\* the threads that share one filter
Threads == {1, 2}

\* the most calls one thread makes
MaxCallsPerThread == 2

InitThreads ==
    /\ threads = [t \in Threads |-> IdleFrame]
    /\ engine0 = self

InitFilterCalls ==
    /\ op = "none"
    /\ decision = NoDecision
    /\ result = FALSE
    /\ filter_calls = 0
    /\ raised = FALSE

InitConfigCalls ==
    /\ config_before = config
    /\ validate_result = "none"
    /\ validate_calls = 0

\* Any filter, any call arguments; the default configuration object.
Init ==
    /\ ignore_list_arg \in IgnoreListArgs
    /\ \E fn \in {NoneFn} \cup CustomFilters,
          enabled \in BOOLEAN, case_sensitive \in BOOLEAN :
          self = InterruptionFilterInit(ignore_list_arg, fn, enabled, case_sensitive)
    /\ transcription \in Transcriptions
    /\ agent_state \in AgentStates
    /\ agent_speaking \in BOOLEAN
    /\ InitFilterCalls
    /\ config = DefaultConfig
    /\ InitConfigCalls
    /\ InitAgent
    /\ InitThreads

CallShouldFilterInterruption ==
    LET r == should_filter_interruption(self, transcription, agent_state,
                                        agent_speaking)
    IN  /\ op' = "should_filter_interruption"
        /\ decision' = r.decision
        /\ filter_calls' = r.filter_calls
        /\ raised' = r.raised
        /\ result' = FALSE
        /\ UNCHANGED <<self, transcription, agent_state, agent_speaking>>
        /\ UNCHANGED <<config_vars, other_vars>>

CallIsIgnoreListOnly ==
    /\ op' = "is_ignore_list_only"
    /\ result' = is_ignore_list_only(self, transcription)
    /\ filter_calls' = 0
    /\ raised' = FALSE
    /\ decision' = NoDecision
    /\ UNCHANGED <<self, transcription, agent_state, agent_speaking>>
    /\ UNCHANGED <<config_vars, other_vars>>

CallHasCommandWords ==
    /\ op' = "has_command_words"
    /\ result' = has_command_words(self, transcription)
    /\ filter_calls' = 0
    /\ raised' = FALSE
    /\ decision' = NoDecision
    /\ UNCHANGED <<self, transcription, agent_state, agent_speaking>>
    /\ UNCHANGED <<config_vars, other_vars>>

Next ==
    \/ CallShouldFilterInterruption
    \/ CallIsIgnoreListOnly
    \/ CallHasCommandWords

Spec == Init /\ [][Next]_vars

\* Any configuration object; the default filter, not called.
InitConfig ==
    /\ ignore_list_arg = NoneList
    /\ self = InterruptionFilterInit(ignore_list_arg, NoneFn, TRUE, FALSE)
    /\ transcription = << >>
    /\ agent_state = "listening"
    /\ agent_speaking = FALSE
    /\ InitFilterCalls
    /\ \E enabled \in BOOLEAN, case_sensitive \in BOOLEAN, emit \in BOOLEAN,
          l \in {DEFAULT_IGNORE_LIST} \cup TestIgnoreLists,
          bt \in BufferTimes, fn \in {NoneFn, "contains_custom"} :
          config = [enabled |-> enabled, ignore_list |-> l,
                    case_sensitive |-> case_sensitive, buffer_time |-> bt,
                    custom_filter |-> fn, emit_events |-> emit]
    /\ InitConfigCalls
    /\ InitAgent
    /\ InitThreads

CallValidate ==
    LET r == validate(config)
    IN  /\ validate_calls < MaxValidateCalls
        /\ validate_calls' = validate_calls + 1
        /\ config_before' = config
        /\ config' = r.config
        /\ validate_result' = IF r.raised THEN "ValueError" ELSE "ok"
        /\ UNCHANGED <<filter_vars, other_vars>>

NextConfig == CallValidate

SpecConfig == InitConfig /\ [][NextConfig]_vars

\* one-word and two-word transcripts in several letter cases
CaseTexts ==
    {YEAH_WORD, <<"Y", "E", "A", "H">>, <<"Y", "e", "a", "h">>,
     OK_WORD, <<"O", "k">>, <<"H", "M", "M">>, <<"h", "m", "m">>,
     <<"s", "t", "o", "p">>, <<"O", "k", " ", "y", "e", "a", "h">>}

\* A configuration object and a filter constructed from the same ignore list,
\* enabled flag and case sensitivity; any transcript of CaseTexts.
InitCase ==
    /\ \E l \in {DEFAULT_IGNORE_LIST} \cup TestIgnoreLists,
          enabled \in BOOLEAN, case_sensitive \in BOOLEAN, bt \in {5, 30} :
          /\ ignore_list_arg = ListOf(l)
          /\ self = InterruptionFilterInit(ListOf(l), NoneFn, enabled, case_sensitive)
          /\ config = [enabled |-> enabled, ignore_list |-> l,
                       case_sensitive |-> case_sensitive, buffer_time |-> bt,
                       custom_filter |-> NoneFn, emit_events |-> TRUE]
    /\ transcription \in CaseTexts
    /\ agent_state = "speaking"
    /\ agent_speaking = TRUE
    /\ InitFilterCalls
    /\ InitConfigCalls
    /\ InitAgent
    /\ InitThreads

NextCase ==
    \/ CallValidate
    \/ CallIsIgnoreListOnly
    \/ CallHasCommandWords

SpecCase == InitCase /\ [][NextCase]_vars

\* the agent states a session reports
AgentStateNames == {"initializing", "listening", "thinking", "speaking"}

\* transcripts of the session's events: empty, blank, backchannel, command
AgentTexts ==
    {<< >>, <<" ">>, <<" ", "\t">>, YEAH_WORD, <<"O", "k", "!">>,
     <<"s", "t", "o", "p">>,
     <<"y", "e", "a", "h", " ", "b", "u", "t", " ", "w", "a", "i", "t">>}

\* The example agent before any event; self is its filter.
InitAgentSession ==
    /\ InitAgent
    /\ ignore_list_arg = ListOf(Example_DEFAULT_IGNORE_LIST)
    /\ self = agent._interruption_filter
    /\ transcription = << >>
    /\ agent_state = "listening"
    /\ agent_speaking = FALSE
    /\ InitFilterCalls
    /\ config = DefaultConfig
    /\ InitConfigCalls
    /\ InitThreads

\* session.on("agent_state_changed")
AgentStateChanged ==
    \E new_state \in AgentStateNames :
        LET ev == [kind |-> "agent_state_changed", new_state |-> new_state,
                   is_final |-> FALSE, transcript |-> << >>]
        IN  /\ agent' = on_agent_state_changed(agent, ev)
            /\ event' = ev
            /\ last_new_state' = new_state
            /\ engine_called' = FALSE
            /\ should_allow' = FALSE
            /\ UNCHANGED <<filter_vars, config_vars, ignore_list_arg,
                           thread_vars>>

\* session.on("user_input_transcribed")
UserInputTranscribed ==
    \E is_final \in BOOLEAN, transcript \in AgentTexts :
        LET ev == [kind |-> "user_input_transcribed", new_state |-> "",
                   is_final |-> is_final, transcript |-> transcript]
            r == on_user_input(agent, ev)
        IN  /\ event' = ev
            /\ engine_called' = r.called
            /\ should_allow' = r.allow
            /\ IF r.called
               THEN /\ transcription' = r.transcription
                    /\ agent_state' = r.agent_state
                    /\ agent_speaking' = r.agent_speaking
                    /\ op' = "should_filter_interruption"
                    /\ decision' = r.outcome.decision
                    /\ filter_calls' = r.outcome.filter_calls
                    /\ raised' = r.outcome.raised
                    /\ result' = FALSE
                    /\ UNCHANGED self
               ELSE UNCHANGED filter_vars
            /\ UNCHANGED <<agent, last_new_state, config_vars, ignore_list_arg,
                           thread_vars>>

NextAgent ==
    \/ AgentStateChanged
    \/ UserInputTranscribed

SpecAgent == InitAgentSession /\ [][NextAgent]_vars

\* the filters the threads share: the default one, a disabled one, a
\* case-sensitive one whose policy fails, and one whose policy decides
ConcurrentEngines ==
    {[list |-> NoneList, fn |-> NoneFn, enabled |-> TRUE, case_sensitive |-> FALSE],
     [list |-> NoneList, fn |-> NoneFn, enabled |-> FALSE, case_sensitive |-> FALSE],
     [list |-> ListOf(<<YEAH_WORD, OK_WORD>>), fn |-> "raises",
      enabled |-> TRUE, case_sensitive |-> TRUE],
     [list |-> NoneList, fn |-> "contains_custom", enabled |-> TRUE,
      case_sensitive |-> FALSE]}

ConcurrentTexts ==
    {YEAH_WORD, <<"O", "k", "!">>, YEAH_WORD \o <<" ">> \o CUSTOM_WORD, <<"!">>}

\* the calls a thread makes
ConcurrentCalls ==
    {[op |-> "should_filter_interruption", transcription |-> text,
      agent_state |-> IF speaking THEN "speaking" ELSE "listening",
      agent_speaking |-> speaking] :
        text \in ConcurrentTexts, speaking \in BOOLEAN}
    \cup
    {[op |-> o, transcription |-> text, agent_state |-> "listening",
      agent_speaking |-> FALSE] :
        o \in {"is_ignore_list_only", "has_command_words"},
        text \in ConcurrentTexts}

\* One filter, no call running.
InitConcurrent ==
    /\ \E a \in ConcurrentEngines :
          /\ ignore_list_arg = a.list
          /\ self = InterruptionFilterInit(a.list, a.fn, a.enabled,
                                           a.case_sensitive)
    /\ transcription = << >>
    /\ agent_state = "listening"
    /\ agent_speaking = FALSE
    /\ InitFilterCalls
    /\ config = DefaultConfig
    /\ InitConfigCalls
    /\ InitAgent
    /\ InitThreads

\* what a statement of a running call leaves alone
ThreadStepUnchanged ==
    UNCHANGED <<transcription, agent_state, agent_speaking, op, decision,
                result, filter_calls, raised, config_vars, ignore_list_arg,
                agent_vars, engine0>>

\* Thread t runs the statement at its position: its frame moves, and the
\* engine is what the statement leaves of it.
RunStep(t, after) ==
    /\ threads' = [threads EXCEPT ![t] = after]
    /\ self' = EngineAfterStep(self, threads[t], after)
    /\ ThreadStepUnchanged

\* Thread t calls a method of the filter.
ThreadCall(t) ==
    /\ threads[t].pc \in {"idle", "done"}
    /\ threads[t].calls < MaxCallsPerThread
    /\ \E call \in ConcurrentCalls :
          /\ call # threads[t].call
          /\ RunStep(t, Enter(threads[t], call, FALSE))

\* Thread t repeats its last call with the same arguments.
ThreadRepeat(t) ==
    /\ threads[t].pc = "done"
    /\ threads[t].calls < MaxCallsPerThread
    /\ RunStep(t, Enter(threads[t], threads[t].call, TRUE))

ThreadEnabled(t) ==
    /\ threads[t].pc = "enabled"
    /\ RunStep(t, StepEnabled(self, threads[t]))

ThreadCustom(t) ==
    /\ threads[t].pc = "custom"
    /\ RunStep(t, StepCustom(self, threads[t]))

ThreadSpeaking(t) ==
    /\ threads[t].pc = "speaking"
    /\ RunStep(t, StepSpeaking(self, threads[t]))

ThreadNormalize(t) ==
    /\ threads[t].pc = "normalize"
    /\ RunStep(t, StepNormalize(self, threads[t]))

ThreadMembership(t) ==
    /\ threads[t].pc = "membership"
    /\ RunStep(t, StepMembership(self, threads[t]))

NextConcurrent ==
    \E t \in Threads :
        \/ ThreadCall(t)
        \/ ThreadRepeat(t)
        \/ ThreadEnabled(t)
        \/ ThreadCustom(t)
        \/ ThreadSpeaking(t)
        \/ ThreadNormalize(t)
        \/ ThreadMembership(t)

SpecConcurrent == InitConcurrent /\ [][NextConcurrent]_vars

----------------------------------------------------------------------------
(* Vocabulary of the properties                                            *)

SFI == "should_filter_interruption"

\* The token sequence of a text as the specification words it: punctuation
\* deleted, lower-cased when case-insensitive, split on whitespace.
TokenSequence(case_sensitive, text) ==
    split(IF case_sensitive THEN translate(text) ELSE lower(translate(text)))

\* What the installed custom filter does on the arguments of the call.
CustomOutcome == CustomFilterCall(self._custom_filter_fn, transcription, agent_state)

CustomInstalled == self._custom_filter_fn # NoneFn

\* The same filter without a custom filter function.
WithoutCustom == [self EXCEPT !._custom_filter_fn = NoneFn]

\* t is made of entries of the set S only: entries separated by whitespace,
\* each with any punctuation attached before or after it.  boundary: an entry
\* may start here; seen: an entry has been read.
RECURSIVE ComposedFrom(_, _, _, _)
ComposedFrom(t, S, seen, boundary) ==
    IF t = << >>
    THEN seen
    ELSE \/ Head(t) \in Whitespace /\ ComposedFrom(Tail(t), S, seen, TRUE)
         \/ Head(t) \in Punctuation /\ ComposedFrom(Tail(t), S, seen, boundary)
         \/ /\ boundary
            /\ \E e \in S :
                  /\ e # << >>
                  /\ Len(e) <= Len(t)
                  /\ SubSeq(t, 1, Len(e)) = e
                  /\ ComposedFrom(SubSeq(t, Len(e) + 1, Len(t)), S, TRUE, FALSE)

ComposedOfEntries(f, text) ==
    ComposedFrom(_normalize_text(f, text), f._ignore_set, FALSE, TRUE)

----------------------------------------------------------------------------
(* Properties of should_filter_interruption                                *)

\* C1 as stated: with agent_speaking = false, should_filter_interruption
\* returns ALLOW for every configuration, custom policy installed or not.
C1_NotSpeakingAlwaysAllows ==
    (op = SFI /\ ~agent_speaking) => decision.action = ALLOW

\* C1, amended: with agent_speaking = false the decision is ALLOW, except when
\* filtering is enabled and an installed custom policy returns true without
\* failing; then, and only then, it is FILTER.
C1_NotSpeakingAllowsUnlessCustomFilters ==
    (op = SFI /\ ~agent_speaking) =>
        /\ ~raised
        /\ decision.action \in {ALLOW, FILTER}
        /\ decision.action = FILTER <=>
              (/\ self._enabled
               /\ CustomInstalled
               /\ ~CustomOutcome.raised
               /\ CustomOutcome.value)

C1_Witness ==
    /\ op = SFI
    /\ ~agent_speaking
    /\ self._enabled
    /\ self._custom_filter_fn = "raises"
    /\ is_ignore_list_only(self, transcription)
    /\ decision.action = ALLOW

\* C2: a filter constructed with enabled = false returns ALLOW with confidence
\* 1.0 for every text, agent_speaking and agent_state, and never invokes the
\* custom policy function, installed or not.
C2_DisabledAllowsWithoutCustomCall ==
    (op = SFI /\ ~self._enabled) =>
        /\ ~raised
        /\ decision.action = ALLOW
        /\ decision.confidence = 10
        /\ filter_calls = 0

C2_Witness ==
    /\ op = SFI
    /\ ~self._enabled
    /\ agent_speaking
    /\ CustomInstalled
    /\ ~CustomOutcome.raised
    /\ CustomOutcome.value
    /\ decision.action = ALLOW

\* C3: when the installed custom policy is invoked and returns without
\* failing, the decision is FILTER if it returned true and ALLOW otherwise,
\* with confidence 1.0 and metadata custom_filter = True, whatever
\* agent_speaking and the ignore set are.
C3_CustomPolicyAloneDecides ==
    (op = SFI /\ CustomInstalled /\ filter_calls > 0 /\ ~CustomOutcome.raised) =>
        /\ ~raised
        /\ decision.action = (IF CustomOutcome.value THEN FILTER ELSE ALLOW)
        /\ decision.confidence = 10
        /\ DOMAIN decision.metadata = {"custom_filter"}
        /\ decision.metadata["custom_filter"] = TRUE

\* the policy said ALLOW where the built-in rules would have said FILTER
C3_Witness ==
    /\ op = SFI
    /\ CustomInstalled
    /\ filter_calls = 1
    /\ ~CustomOutcome.raised
    /\ ~CustomOutcome.value
    /\ agent_speaking
    /\ is_ignore_list_only(self, transcription)
    /\ decision.action = ALLOW

\* C4: when the installed custom policy fails, no error reaches the caller and
\* the decision is the one the same filter without a custom policy returns
\* for the same text and agent_speaking.
C4_FailingCustomPolicyFallsBack ==
    (op = SFI /\ CustomInstalled /\ CustomOutcome.raised) =>
        /\ ~raised
        /\ decision = should_filter_interruption(WithoutCustom, transcription,
                                                 agent_state, agent_speaking).decision

C4_Witness ==
    /\ op = SFI
    /\ CustomInstalled
    /\ CustomOutcome.raised
    /\ filter_calls = 1
    /\ agent_speaking
    /\ decision.action = FILTER

----------------------------------------------------------------------------
(* Properties of the classification helpers                                *)

\* C5 as stated: is_ignore_list_only returns true for every text made of
\* entries of the ignore list only (separated by whitespace, any punctuation
\* attached, any case when case-insensitive), the hyphenated and the
\* multi-word entries of the default list included.
C5_EntriesOnlyTextIsIgnoreListOnly ==
    (op = "is_ignore_list_only" /\ ComposedOfEntries(self, transcription)) =>
        result = TRUE

\* C6: is_ignore_list_only returns true iff the token sequence of the text is
\* non-empty and every token is in the ignore set; it returns false for
\* empty, whitespace-only and punctuation-only text.
C6_IgnoreListOnlyIffAllTokensIgnored ==
    op = "is_ignore_list_only" =>
        LET tokens == TokenSequence(self._case_sensitive, transcription)
        IN  /\ ~raised
            /\ result = (/\ tokens # << >>
                         /\ \A i \in DOMAIN tokens : tokens[i] \in self._ignore_set)
            /\ (\A i \in DOMAIN transcription :
                    transcription[i] \in Whitespace \cup Punctuation) => result = FALSE

\* two ignored tokens with punctuation attached
C6_Witness ==
    /\ op = "is_ignore_list_only"
    /\ result = TRUE
    /\ Len(TokenSequence(self._case_sensitive, transcription)) >= 2
    /\ \E i \in DOMAIN transcription : transcription[i] \in Punctuation

\* C7: has_command_words returns true iff the token sequence is non-empty and
\* some token is not in the ignore set; on a text with a token it is the
\* negation of is_ignore_list_only, and on empty or whitespace-only text both
\* return false.
C7_HasCommandWordsIffSomeTokenNotIgnored ==
    op = "has_command_words" =>
        LET tokens == TokenSequence(self._case_sensitive, transcription)
        IN  /\ ~raised
            /\ result = (/\ tokens # << >>
                         /\ \E i \in DOMAIN tokens : tokens[i] \notin self._ignore_set)
            /\ tokens # << >> => result = ~is_ignore_list_only(self, transcription)
            /\ (\A i \in DOMAIN transcription : transcription[i] \in Whitespace) =>
                   (result = FALSE /\ ~is_ignore_list_only(self, transcription))

\* an ignored word followed by a command word
C7_Witness ==
    /\ op = "has_command_words"
    /\ result = TRUE
    /\ LET tokens == TokenSequence(self._case_sensitive, transcription)
       IN  /\ Len(tokens) >= 2
           /\ tokens[1] \in self._ignore_set

\* C8: enabled, no custom policy, agent speaking: FILTER iff
\* is_ignore_list_only(text), ALLOW for every other text; in the
\* backchanneling and the command-words branch the confidence is 1.0 and the
\* metadata carries the transcript as it was passed in.
C8_SpeakingFiltersExactlyBackchannel ==
    (op = SFI /\ self._enabled /\ ~CustomInstalled /\ agent_speaking) =>
        /\ ~raised
        /\ decision.action = (IF is_ignore_list_only(self, transcription)
                              THEN FILTER ELSE ALLOW)
        /\ decision.reason = "Backchanneling detected while agent speaking"
              <=> is_ignore_list_only(self, transcription)
        /\ decision.reason = "Command words detected, allowing interruption"
              <=> has_command_words(self, transcription)
        /\ (is_ignore_list_only(self, transcription)
              \/ has_command_words(self, transcription)) =>
                 /\ decision.confidence = 10
                 /\ "transcription" \in DOMAIN decision.metadata
                 /\ decision.metadata["transcription"] = transcription

\* a filtered transcript that normalization would have changed
C8_Witness ==
    /\ op = SFI
    /\ self._enabled
    /\ ~CustomInstalled
    /\ agent_speaking
    /\ decision.action = FILTER
    /\ transcription # translate(lower(transcription))
    /\ decision.metadata["transcription"] = transcription

\* C9: the low-confidence decision (ALLOW, 0.5, "Default allow") is returned
\* exactly when filtering is enabled, no custom policy produced a result, the
\* agent is speaking and the text has no token; otherwise confidence is 1.0.
C9_LowConfidenceExactlyOnNoTokens ==
    op = SFI =>
        LET no_tokens == TokenSequence(self._case_sensitive, transcription) = << >>
            ambiguous == /\ self._enabled
                         /\ ~CustomInstalled \/ CustomOutcome.raised
                         /\ agent_speaking
                         /\ no_tokens
        IN  /\ ~raised
            /\ ambiguous <=> (/\ decision.action = ALLOW
                              /\ decision.confidence = 5
                              /\ decision.reason = "Default allow")
            /\ ~ambiguous => decision.confidence = 10

\* punctuation-only text after a custom policy that failed
C9_Witness ==
    /\ op = SFI
    /\ CustomInstalled
    /\ filter_calls = 1
    /\ transcription # << >>
    /\ \A i \in DOMAIN transcription : transcription[i] \in Punctuation
    /\ decision.confidence = 5

----------------------------------------------------------------------------
(* Properties of InterruptionFilterConfig.validate                         *)

\* C10: validate fails iff buffer_time is below 0 or above 2.0, or enabled is
\* true and the ignore list is empty; it succeeds otherwise, also for
\* buffer_time 0 or 2.0 and for an empty ignore list with enabled = false.
C10_ValidateFailsExactlyOnBadConfig ==
    validate_result # "none" =>
        (validate_result = "ValueError" <=>
            \/ config_before.buffer_time < 0
            \/ config_before.buffer_time > 20
            \/ config_before.enabled /\ config_before.ignore_list = << >>)

C10_Witness ==
    /\ validate_result = "ok"
    /\ config_before.buffer_time = 20
    /\ ~config_before.enabled
    /\ config_before.ignore_list = << >>


\* C11: validate is idempotent: after a validate call that succeeded, another
\* validate call succeeds too and leaves every field of the configuration,
\* the content and order of the ignore list included, as it was.
C11_ValidateIdempotent ==
    [][validate_result = "ok" =>
          (validate_result' = "ok" /\ config' = config)]_vars

\* a second successful call on a list the first call had to lower-case
C11_Witness ==
    /\ validate_calls = 2
    /\ validate_result = "ok"
    /\ ~config.case_sensitive
    /\ config.ignore_list = <<YEAH_WORD, OK_WORD, <<"h", "m", "m">>>>
    /\ config_before = config


----------------------------------------------------------------------------
(* Properties of case normalization                                        *)

\* the ignore list as it was supplied
Supplied == ignore_list_arg.list

\* str.isupper() on one character
IsUpperChar(c) == \E i \in DOMAIN UpperCase : UpperCase[i] = c

HasUpperCase(word) == \E i \in DOMAIN word : IsUpperChar(word[i])

\* C12: case-insensitive: the filter's ignore set holds the lower-case form of
\* every supplied entry, and so does the list of a configuration validate has
\* accepted, so no entry with an upper-case letter remains; case-sensitive:
\* the entries are kept as supplied and a token matches only an entry of
\* identical case.
C12_CaseNormalization ==
    /\ ~self._case_sensitive =>
          /\ self._ignore_set = {lower(Supplied[i]) : i \in DOMAIN Supplied}
          /\ \A e \in self._ignore_set : ~HasUpperCase(e)
    /\ self._case_sensitive => self._ignore_set = ToSet(Supplied)
    /\ (validate_result = "ok" /\ ~config.case_sensitive) =>
          /\ config.ignore_list = [i \in DOMAIN Supplied |-> lower(Supplied[i])]
          /\ \A i \in DOMAIN config.ignore_list : ~HasUpperCase(config.ignore_list[i])
    /\ config.case_sensitive => config.ignore_list = Supplied
    /\ (self._case_sensitive /\ op = "is_ignore_list_only") =>
          LET tokens == split(translate(transcription))
          IN  result = (/\ tokens # << >>
                        /\ \A i \in DOMAIN tokens : tokens[i] \in ToSet(Supplied))

\* upper-case entries, normalized by the constructor and by validate, match
\* an upper-case transcript
C12_Witness ==
    /\ ~self._case_sensitive
    /\ \E i \in DOMAIN Supplied : HasUpperCase(Supplied[i])
    /\ validate_result = "ok"
    /\ config.ignore_list # Supplied
    /\ op = "is_ignore_list_only"
    /\ HasUpperCase(transcription)
    /\ result = TRUE


----------------------------------------------------------------------------
(* Robustness and the data-model invariant                                 *)

\* C13: for every text and every filter, should_filter_interruption,
\* is_ignore_list_only and has_command_words never fail, and
\* should_filter_interruption returns a well-formed decision: ALLOW or FILTER,
\* never PENDING, with a confidence in [0.0, 1.0].
C13_NeverFailsAndDecisionWellFormed ==
    /\ ~raised
    /\ op = SFI =>
          /\ decision.action \in {ALLOW, FILTER}
          /\ decision.action # PENDING
          /\ decision.confidence >= 0
          /\ decision.confidence <= 10
          /\ decision.reason # ""
    /\ op \in {"is_ignore_list_only", "has_command_words"} => result \in BOOLEAN

\* the empty text, while speaking, after a custom policy that raised
C13_Witness ==
    /\ op = SFI
    /\ transcription = << >>
    /\ agent_speaking
    /\ self._enabled
    /\ self._custom_filter_fn = "raises"
    /\ filter_calls = 1
    /\ ~raised
    /\ decision.action = ALLOW

\* C14 as stated: the ignore list is non-empty whenever filtering is enabled:
\* every filter constructed with enabled = true and every enabled
\* configuration that validate has accepted holds at least one entry.
C14_EnabledImpliesNonEmptyIgnoreList ==
    /\ self._enabled => self._ignore_set # {}
    /\ (config.enabled /\ validate_result = "ok") => config.ignore_list # << >>


----------------------------------------------------------------------------
(* The embedded filter against the library filter                          *)

\* the example's filter constructed from the arguments of the library filter
ExampleFilter ==
    Example_InterruptionFilterInit(ignore_list_arg, self._custom_filter_fn,
                                   self._enabled, self._case_sensitive)

\* C18: the InterruptionFilter embedded in the example agent and the library
\* InterruptionFilter, constructed with the same arguments, return decisions
\* with the same action, reason, confidence and metadata for every text,
\* agent_state and agent_speaking, also when the custom policy fails.
C18_EmbeddedFilterEquivalent ==
    op = SFI =>
        LET r == Example_should_filter_interruption(ExampleFilter, transcription,
                                                    agent_state, agent_speaking)
        IN  /\ r.raised = raised
            /\ r.decision.action = decision.action
            /\ r.decision.reason = decision.reason
            /\ r.decision.confidence = decision.confidence
            /\ r.decision.metadata = decision.metadata

\* both filters, on their default lists, fall back after the policy raised
C18_Witness ==
    /\ op = SFI
    /\ ignore_list_arg.is_none
    /\ self._enabled
    /\ self._custom_filter_fn = "raises"
    /\ agent_speaking
    /\ decision.action = FILTER
    /\ Example_should_filter_interruption(ExampleFilter, transcription,
                                         agent_state, agent_speaking).decision
          = decision


----------------------------------------------------------------------------
(* Properties of the example agent                                         *)

\* the handler that ran last called the filter
DecisionMade == event.kind = "user_input_transcribed" /\ engine_called

\* C16: on each decision the agent_speaking value passed to the filter equals
\* whether the new state of the most recent agent_state_changed event was
\* "speaking" (false before any such event), and the agent_state label passed
\* is "speaking" exactly when that value is true.
C16_SpeakingFlagFollowsLatestStateEvent ==
    DecisionMade =>
        /\ op = SFI
        /\ transcription = event.transcript
        /\ agent_speaking = (last_new_state = "speaking")
        /\ agent_state = "speaking" <=> agent_speaking
        /\ agent_state \in {"speaking", "listening"}

\* a decision taken after the agent left the speaking state for thinking: the
\* backchannel that would be filtered while speaking is allowed
C16_Witness ==
    /\ DecisionMade
    /\ last_new_state = "thinking"
    /\ ~agent_speaking
    /\ agent_state = "listening"
    /\ transcription = YEAH_WORD
    /\ should_allow

\* C17: the filter is called only for transcript events that are final and
\* whose transcript is not blank: a partial event, or a final one with empty
\* or whitespace-only text, never produces a call.
C17_OnlyFinalNonBlankReachTheFilter ==
    event.kind = "user_input_transcribed" =>
        /\ engine_called =>
              /\ event.is_final
              /\ \E i \in DOMAIN event.transcript :
                    event.transcript[i] \notin Whitespace
        /\ (~event.is_final
              \/ \A i \in DOMAIN event.transcript :
                    event.transcript[i] \in Whitespace) => ~engine_called

\* a partial transcript with words in it, and no call
C17_Witness ==
    /\ event.kind = "user_input_transcribed"
    /\ ~event.is_final
    /\ event.transcript = YEAH_WORD
    /\ agent._is_speaking
    /\ ~engine_called


----------------------------------------------------------------------------
(* Properties of concurrent calls                                          *)

\* what the call of frame f returns when it runs alone on the engine
AloneReturn(engine, f) ==
    CASE f.call.op = "should_filter_interruption" ->
            LET r == should_filter_interruption(engine, f.call.transcription,
                                                f.call.agent_state,
                                                f.call.agent_speaking)
            IN  [decision |-> r.decision, result |-> FALSE,
                 filter_calls |-> r.filter_calls, raised |-> r.raised]
      [] f.call.op = "is_ignore_list_only" ->
            BoolReturn(is_ignore_list_only(engine, f.call.transcription))
      [] f.call.op = "has_command_words" ->
            BoolReturn(has_command_words(engine, f.call.transcription))

\* C15: no call changes the engine's enabled flag, case-sensitivity flag,
\* custom policy or ignore set; under every interleaving of the threads'
\* calls on one engine each finished call has returned what it returns when
\* run alone, and a repeated call has returned what the call before it did.
C15_CallsLeaveEngineAloneAndAgreeWithSequential ==
    /\ self = engine0
    /\ \A t \in Threads :
          threads[t].pc = "done" =>
              /\ threads[t].ret = AloneReturn(engine0, threads[t])
              /\ threads[t].has_prev => threads[t].ret = threads[t].prev

\* thread 1 has repeated a call that filters a backchannel, on an engine
\* whose policy fails, while thread 2 is inside a helper on another text
C15_Witness ==
    /\ self._custom_filter_fn = "raises"
    /\ threads[1].pc = "done"
    /\ threads[1].has_prev
    /\ threads[1].ret.decision.action = FILTER
    /\ threads[1].ret.filter_calls = 1
    /\ threads[2].pc = "membership"
    /\ threads[2].call.op = "should_filter_interruption"
    /\ threads[2].helper = "has_command_words"
    /\ threads[2].call.transcription # threads[1].call.transcription

====
